---- MODULE Spec2Model ----
(***************************************************************************)
(* Life Tracker (src/app.py): the journal store, its defaulting and merge  *)
(* semantics, the streak calculation, the analytics window, and the        *)
(* Streamlit script that drives them.                                      *)
(*                                                                         *)
(* Representation                                                          *)
(*   date          the proleptic Gregorian ordinal (date.toordinal())      *)
(*   date key      <<year, month, day>>, the fields strftime('%Y-%m-%d')   *)
(*                 prints                                                  *)
(*   "HH:MM"       <<hour, minute>>; the empty string is <<>>; a text with *)
(*                 a field of one digit, as "7:5", is <<7, 5, "H:M">>      *)
(*   float         a number with one decimal is held in tenths             *)
(*                 (8.0 hours is 80, a duration of 0.5 is 5)               *)
(*   dict          a function on the set of its keys, so a record that     *)
(*                 lacks a field is a function with a smaller domain       *)
(*   list          a sequence; the list that is the whole of a JSON text   *)
(*                 is a function on <<index>>, apart from every dict       *)
(***************************************************************************)
EXTENDS Integers, Sequences, FiniteSets, TLC

VARIABLES
    today,          \* what date.today() returns
    disk,           \* the content of DATA_FILE
    started,        \* the sessions whose st.session_state holds 'data'
    data,           \* data[s]: st.session_state.data of session s
    current_date,   \* current_date[s]: st.session_state.current_date
    pc,             \* pc[s]: where the script run of session s stands
    event,          \* event[s]: the widget event the run of session s serves
    shown,          \* shown[s]: the streak the "Current Streak" metric shows
    timeframe,      \* timeframe[s]: the days the timeframe radio selects
    last,           \* the call of update_and_save (or the direct call) the latest step made
    saves,          \* saves[s]: the latest call of update_and_save by session s, and
                    \* whether a call by s has raised
    budget,         \* the user events, midnights and failed saves still to come
    arg,            \* the inputs of a direct call (the calls specification)
    ret             \* the value the direct call returned

vars == <<today, disk, started, data, current_date, pc, event, shown, timeframe,
          last, saves, budget, arg, ret>>

(***************************************************************************)
(* Bounds                                                                  *)
(***************************************************************************)
\* the first value of today: 738946 is date(2024, 3, 1).toordinal()
Today0 == 738946
\* the days, counted back from today, whose record an initial store varies
PatLen == 3
\* get_analytics_data is called with days in 0..MaxDays (and with 7)
MaxDays == 3
\* the user events, midnights and failed saves of one behaviour of the script
MaxEvents == 2
\* the same, when two sessions run
MaxRaceEvents == 1
\* datetime.now() reads a millisecond in 1..MaxClock
MaxClock == 2

\* range(365) in calculate_nofap_streak
Lookback == 365

Sessions == {1, 2}

(***************************************************************************)
(* Dates                                                                   *)
(***************************************************************************)
\* date_obj.strftime('%Y-%m-%d'): the civil date of an ordinal
get_date_key(date_obj) ==
    LET z   == date_obj + 305
        era == z \div 146097
        doe == z - era * 146097
        yoe == (doe - (doe \div 1460) + (doe \div 36524) - (doe \div 146096)) \div 365
        doy == doe - (365 * yoe + (yoe \div 4) - (yoe \div 100))
        mp  == (5 * doy + 2) \div 153
        d   == doy - ((153 * mp + 2) \div 5) + 1
        m   == IF mp < 10 THEN mp + 3 ELSE mp - 9
        y   == yoe + era * 400 + (IF m <= 2 THEN 1 ELSE 0)
    IN  <<y, m, d>>

\* check_date.strftime('%a %d'): the weekday (Monday is 0) and the day of the month
date_str(date_obj) == <<(date_obj + 6) % 7, get_date_key(date_obj)[3]>>

(***************************************************************************)
(* Journal store                                                           *)
(***************************************************************************)
EmptyDict == <<>>

\* SetItem into a new dict
SetItemAlone(d, key, rec) == key :> rec

\* data[key] = rec
SetItem(d, key, rec) == (key :> rec) @@ d

\* rec.get(f, default)
Get(rec, f, default) == IF f \in DOMAIN rec THEN rec[f] ELSE default

\* the literal of get_day_data
DefaultDay ==
    [workTasks   |-> <<>>,
     fitness     |-> [duration |-> 0, caloriesBurnt |-> 0],
     faceHealth  |-> [items |-> <<>>],
     diet        |-> [entries |-> <<>>, totalCalories |-> 0],
     energy      |-> 3,
     sleep       |-> [bedTime |-> <<>>, wakeTime |-> <<>>, hours |-> 0],
     nofapStreak |-> 0]

\* get_day_data without its `if date_key not in data`
get_day_data_always(d, date_key) ==
    LET d1 == SetItem(d, date_key, DefaultDay)
    IN  [data |-> d1, ret |-> d1[date_key]]

\* get_day_data(data, date_key): the store it leaves and the record it returns
get_day_data(d, date_key) ==
    LET d1 == IF date_key \notin DOMAIN d THEN SetItem(d, date_key, DefaultDay) ELSE d
    IN  [data |-> d1, ret |-> d1[date_key]]

\* DictUpdate merging into the fields of a sub-object instead of replacing it
DictUpdateDeep(day_data, updates) ==
    [f \in (DOMAIN day_data) \cup (DOMAIN updates) |->
        IF f \notin DOMAIN updates THEN day_data[f]
        ELSE IF f \in {"sleep", "fitness", "diet", "faceHealth"} /\ f \in DOMAIN day_data
        THEN [g \in (DOMAIN day_data[f]) \cup (DOMAIN updates[f]) |->
                IF g \in DOMAIN updates[f] THEN updates[f][g] ELSE day_data[f][g]]
        ELSE updates[f]]

\* day_data.update(updates)
DictUpdate(day_data, updates) == updates @@ day_data

(***************************************************************************)
(* Storage                                                                 *)
(***************************************************************************)
Missing   == [kind |-> "missing"]
Corrupt   == [kind |-> "corrupt"]
\* the file exists and open(DATA_FILE, 'r') raises
Unreadable == [kind |-> "unreadable"]
\* the text ["x"]: JSON that json.load reads as a list
JsonArray == [kind |-> "json", doc |-> (<<0>> :> "x")]
\* json.dump(data, f, indent=2): the text of a JSON object. A store holds
\* dicts with str keys, lists, str, int, float and bool, and json.load gives
\* each of them back equal, so the text is held as the object it denotes
JsonDump(d) == [kind |-> "json", doc |-> d]

\* load_data(): {} unless the file exists and parses
load_data(file) ==
    IF file.kind = "missing" THEN EmptyDict
    ELSE IF file.kind = "json" THEN file.doc
    ELSE EmptyDict

\* save_data keeping the dates of the file that the store lacks
save_data_merging(d, file, outcome) ==
    IF outcome = "ok" THEN [kind |-> "json", doc |-> d @@ load_data(file)]
    ELSE IF outcome = "open" THEN file
    ELSE [kind |-> "corrupt"]

\* save_data(data): open(DATA_FILE, 'w') truncates the file, json.dump writes
\* it. outcome "ok": written; "open": open() raises, the file is as it was;
\* "dump": the write raises after the truncation, the file is left partial
SaveOutcomes == {"ok", "open", "dump"}
save_data(d, file, outcome) ==
    IF outcome = "ok" THEN JsonDump(d)
    ELSE IF outcome = "open" THEN file
    ELSE Corrupt

\* update_and_save undoing the merge when save_data raises
update_and_save_rolling_back(d, cur, updates, file, outcome) ==
    LET date_key == get_date_key(cur)
        g        == get_day_data(d, date_key)
        day_data == DictUpdate(g.ret, updates)
        d1       == SetItem(g.data, date_key, day_data)
    IN  [data |-> IF outcome = "ok" THEN d1 ELSE d,
         disk |-> save_data(d1, file, outcome), raised |-> outcome # "ok"]

\* update_and_save writing the merged record alone
update_and_save_record_only(d, cur, updates, file, outcome) ==
    LET date_key == get_date_key(cur)
        g        == get_day_data(d, date_key)
        day_data == DictUpdate(g.ret, updates)
        d1       == SetItem(g.data, date_key, day_data)
    IN  [data |-> d1, disk |-> save_data(date_key :> day_data, file, outcome),
         raised |-> outcome # "ok"]

\* update_and_save(updates) in a session whose store is d and whose viewed
\* date is cur: the store and the file it leaves, and whether it raised
update_and_save(d, cur, updates, file, outcome) ==
    LET date_key == get_date_key(cur)
        g        == get_day_data(d, date_key)
        day_data == DictUpdate(g.ret, updates)
        d1       == SetItem(g.data, date_key, day_data)
    IN  [data |-> d1, disk |-> save_data(d1, file, outcome), raised |-> outcome # "ok"]

(***************************************************************************)
(* Time normalizer                                                         *)
(***************************************************************************)
\* datetime.strptime(t, '%H:%M') succeeds: %H and %M take one digit or two
IsHHMM(t) ==
    /\ Len(t) \in {2, 3}
    /\ t[1] \in 0..23
    /\ t[2] \in 0..59
    /\ Len(t) = 3 => (t[3] = "H:M" /\ (t[1] < 10 \/ t[2] < 10))

\* the minutes of strptime(t, '%H:%M') since the midnight of its implicit day
Minutes(t) == t[1] * 60 + t[2]

\* round(x, 1) of the double x = mins / 60 sits on a tie when mins = 6q + 3;
\* no such x is a double, and the double nearest to it lies above the tie
\* for the q of this set and below it for the others (IEEE 754 binary64)
FloatTieUp ==
    {0, 4, 5, 6, 7, 10, 13, 15, 17, 18, 23, 24, 27, 28, 29, 33, 34, 37, 38, 39,
     41, 44, 46, 47, 49, 51, 54, 56, 57, 59, 61, 64, 66, 67, 69, 71, 74, 76, 77,
     79, 80, 81, 85, 86, 87, 90, 91, 95, 96, 97, 100, 101, 105, 106, 107, 110,
     111, 115, 116, 117, 120, 121, 125, 126, 127, 130, 131, 135, 136, 137, 140,
     141, 145, 146, 147, 150, 151, 155, 156, 157, 160, 163, 165, 167, 168, 170,
     173, 175, 177, 178, 180, 183, 185, 187, 188, 190, 193, 195, 197, 198, 200,
     203, 205, 207, 208, 210, 213, 215, 217, 218, 220, 223, 225, 227, 228, 230,
     233, 235, 237, 238}

\* RoundHours cutting the second decimal off
RoundHoursDown(mins) == mins \div 6

\* round((wake - bed).total_seconds() / 3600, 1), in tenths of an hour
RoundHours(mins) ==
    LET q == mins \div 6
        r == mins % 6
    IN  IF r < 3 THEN q
        ELSE IF r > 3 THEN q + 1
        ELSE IF q \in FloatTieUp THEN q + 1 ELSE q

\* calculate_sleep_hours(bed_time, wake_time), in tenths of an hour
calculate_sleep_hours(bed_time, wake_time) ==
    IF bed_time = <<>> \/ wake_time = <<>> THEN 0
    ELSE IF ~(IsHHMM(bed_time) /\ IsHHMM(wake_time)) THEN 0
    ELSE LET bed   == Minutes(bed_time)
             wake0 == Minutes(wake_time)
             wake  == IF wake0 < bed THEN wake0 + 1440 ELSE wake0
         IN  RoundHours(wake - bed)

(***************************************************************************)
(* Streak calculator                                                       *)
(***************************************************************************)
\* Probe reading the day through get_day_data
ProbeGetDay(d, date_key) ==
    LET g == get_day_data(d, date_key)
    IN  [data |-> g.data, flagged |-> Get(g.ret, "nofapStreak", -1) = 1]

\* `date_key in data and data[date_key].get('nofapStreak') == 1`: what the
\* test finds and the store it leaves
Probe(d, date_key) ==
    [data    |-> d,
     flagged |-> /\ date_key \in DOMAIN d
                 /\ Get(d[date_key], "nofapStreak", -1) = 1]

\* StreakStep without the `elif i == 0: continue` branch
StreakStepNoExemption(st, current, i) ==
    LET p == Probe(st.data, get_date_key(current - i))
    IN  IF p.flagged THEN [data |-> p.data, streak |-> st.streak + 1, broke |-> FALSE]
        ELSE [data |-> p.data, streak |-> st.streak, broke |-> TRUE]

\* one pass of the loop body, at offset i: streak += 1, continue or break
StreakStep(st, current, i) ==
    LET check_date == current - i
        p          == Probe(st.data, get_date_key(check_date))
    IN  IF p.flagged THEN [data |-> p.data, streak |-> st.streak + 1, broke |-> FALSE]
        ELSE IF i = 0 THEN [data |-> p.data, streak |-> st.streak, broke |-> FALSE]
        ELSE [data |-> p.data, streak |-> st.streak, broke |-> TRUE]

\* the passes lo, lo + 1, ..., hi - 1 of `for i in range(365)` in that order,
\* none after a break (the range is halved to keep the evaluation shallow)
RECURSIVE StreakLoop(_, _, _, _)
StreakLoop(st, current, lo, hi) ==
    IF st.broke \/ lo >= hi THEN st
    ELSE IF hi = lo + 1 THEN StreakStep(st, current, lo)
    ELSE LET mid == (lo + hi) \div 2
         IN  StreakLoop(StreakLoop(st, current, lo, mid), current, mid, hi)

\* calculate_nofap_streak(data) when date.today() is current: the streak it
\* returns and the store it leaves
calculate_nofap_streak(d, current) ==
    LET st == StreakLoop([data |-> d, streak |-> 0, broke |-> FALSE], current, 0, Lookback)
    IN  [data |-> st.data, ret |-> st.streak]

(***************************************************************************)
(* Analytics aggregator                                                    *)
(***************************************************************************)
RECURSIVE SumTimeSpent(_)
SumTimeSpent(tasks) ==
    IF tasks = <<>> THEN 0
    ELSE Get(Head(tasks), "timeSpent", 0) + SumTimeSpent(Tail(tasks))

\* CountCompleted counting every item
CountEvery(items) == Len(items)

\* sum(1 for item in items if item.get('completed'))
CountCompleted(items) ==
    Cardinality({n \in 1..Len(items) : Get(items[n], "completed", FALSE)})

\* the dict appended to stats for check_date
DailyStat(check_date, day_data) ==
    [date       |-> check_date,
     date_str   |-> date_str(check_date),
     work_mins  |-> SumTimeSpent(Get(day_data, "workTasks", <<>>)),
     cals_in    |-> Get(Get(day_data, "diet", EmptyDict), "totalCalories", 0),
     cals_out   |-> Get(Get(day_data, "fitness", EmptyDict), "caloriesBurnt", 0),
     sleep      |-> Get(Get(day_data, "sleep", EmptyDict), "hours", 0),
     energy     |-> Get(day_data, "energy", 0),
     face_total |-> Len(Get(Get(day_data, "faceHealth", EmptyDict), "items", <<>>)),
     face_done  |-> CountCompleted(Get(Get(day_data, "faceHealth", EmptyDict), "items", <<>>)),
     nofap      |-> Get(day_data, "nofapStreak", 0)]

\* AnalyticsStep taking the stat of a date from what was stored before the
\* default record was put there
AnalyticsStepOfStored(st, current, first) ==
    LET i          == first - st.n
        check_date == current - i
        date_key   == get_date_key(check_date)
        g          == get_day_data(st.data, date_key)
        stored     == IF date_key \in DOMAIN st.data THEN st.data[date_key] ELSE EmptyDict
    IN  [data  |-> g.data,
         stats |-> Append(st.stats, DailyStat(check_date, stored)),
         n     |-> st.n + 1]

\* AnalyticsStep putting the default record under every date of the window
AnalyticsStepReset(st, current, first) ==
    LET i          == first - st.n
        check_date == current - i
        g          == get_day_data_always(st.data, get_date_key(check_date))
    IN  [data  |-> g.data,
         stats |-> Append(st.stats, DailyStat(check_date, g.ret)),
         n     |-> st.n + 1]

\* one pass of the body of `for i in range(first, -1, -1)`: pass st.n is at
\* offset i = first - st.n; the day is fetched and its stat appended
AnalyticsStep(st, current, first) ==
    LET i          == first - st.n
        check_date == current - i
        g          == get_day_data(st.data, get_date_key(check_date))
    IN  [data  |-> g.data,
         stats |-> Append(st.stats, DailyStat(check_date, g.ret)),
         n     |-> st.n + 1]

\* the passes st.n, ..., hi - 1 of the loop, in that order (the range is
\* halved to keep the evaluation shallow)
RECURSIVE AnalyticsLoop(_, _, _, _)
AnalyticsLoop(st, current, first, hi) ==
    IF st.n >= hi THEN st
    ELSE IF st.n + 1 = hi THEN AnalyticsStep(st, current, first)
    ELSE LET mid == (st.n + hi) \div 2
         IN  AnalyticsLoop(AnalyticsLoop(st, current, first, mid), current, first, hi)

\* get_analytics_data looping over range(days, -1, -1)
get_analytics_data_from_days(d, current, days) ==
    LET st == AnalyticsLoop([data |-> d, stats |-> <<>>, n |-> 0], current, days, days + 1)
    IN  [data |-> st.data, ret |-> st.stats]

\* get_analytics_data(data, days) when date.today() is current: the stats it
\* returns and the store it leaves
get_analytics_data(d, current, days) ==
    LET st == AnalyticsLoop([data |-> d, stats |-> <<>>, n |-> 0], current, days - 1, days)
    IN  [data |-> st.data, ret |-> st.stats]

(***************************************************************************)
(* The script: one run per session start and per widget event.  A run      *)
(* goes through the positions nav, get_day, nofap, energy, sleep,          *)
(* add_task, tasks, add_face, face, add_food, fitness, analytics in that   *)
(* order; st.rerun() starts it again from nav, an exception ends it.       *)
(***************************************************************************)
NoEvent == [kind |-> "none"]
\* the latest step made no call of update_and_save
NoCall == [op |-> "none"]

\* time.strftime('%H:%M')
StrfTime(t) == <<t.hour, t.minute>>
\* datetime.strptime(text, '%H:%M').time()
StrpTime(text) == [hour |-> text[1], minute |-> text[2]]

\* what the user may enter
EnergyChoices   == {5}
BedChoices      == {[hour |-> 23, minute |-> 30]}
WakeChoices     == {[hour |-> 6, minute |-> 3]}
TitleChoices    == {"write"}
PriorityChoices == {"High"}
NameChoices     == {"sunscreen"}
FoodChoices     == {"A"}
CalorieChoices  == {150, 200}
DurationChoices == {5}
BurntChoices    == {50}
ClockReadings   == 1 .. MaxClock

CurKey(s)     == get_date_key(current_date[s])
\* current_day: the record of the viewed date
CurrentDay(s) == data[s][CurKey(s)]

\* sum(e['calories'] for e in entries)
RECURSIVE SumCalories(_)
SumCalories(entries) ==
    IF entries = <<>> THEN 0
    ELSE Head(entries).calories + SumCalories(Tail(entries))

\* workTasks.pop(idx)
Pop(seq, idx) == [n \in 1 .. (Len(seq) - 1) |-> IF n < idx THEN seq[n] ELSE seq[n + 1]]

\* NofapUpdates clearing the flag whatever it was
NofapUpdatesClear(current_day) ==
    [nofapStreak |-> 0]

\* the updates of the check-in button
NofapUpdates(current_day) ==
    [nofapStreak |-> IF current_day.nofapStreak = 1 THEN 0 ELSE 1]

\* SleepUpdates with the hours from wake time to bedtime
SleepUpdatesSwapped(bed_time, wake_time) ==
    [sleep |-> [bedTime  |-> StrfTime(bed_time),
                wakeTime |-> StrfTime(wake_time),
                hours    |-> calculate_sleep_hours(StrfTime(wake_time), StrfTime(bed_time))]]

\* the updates of the sleep column, from the values of the two time inputs
SleepUpdates(bed_time, wake_time) ==
    [sleep |-> [bedTime  |-> StrfTime(bed_time),
                wakeTime |-> StrfTime(wake_time),
                hours    |-> calculate_sleep_hours(StrfTime(bed_time), StrfTime(wake_time))]]

\* the updates of the fitness column
FitnessUpdates(duration, burnt) ==
    [fitness |-> [duration |-> duration, caloriesBurnt |-> burnt]]

\* current_day after the add_task_form handler appended a task
AppendTask(current_day, now, title, priority) ==
    [current_day EXCEPT !.workTasks =
        Append(@, [id |-> now, title |-> title, priority |-> priority,
                   timeSpent |-> 0, completed |-> FALSE])]

\* current_day after the checkbox of task idx changed
CheckTask(current_day, idx) ==
    [current_day EXCEPT !.workTasks[idx].completed = ~@]

\* current_day after "+ 15" on task idx
AddTime(current_day, idx) ==
    [current_day EXCEPT !.workTasks[idx].timeSpent = @ + 15]

\* current_day after the delete button of task idx
DeleteTask(current_day, idx) ==
    [current_day EXCEPT !.workTasks = Pop(@, idx)]

\* current_day after the add_face_form handler appended an item
AppendFaceItem(current_day, now, name) ==
    [current_day EXCEPT !.faceHealth.items =
        Append(@, [id |-> now, name |-> name, completed |-> FALSE])]

\* current_day after the checkbox of face item idx changed
CheckFaceItem(current_day, idx) ==
    [current_day EXCEPT !.faceHealth.items[idx].completed = ~@]

\* AppendFood without line 352: the total is left as it was
AppendFoodStaleTotal(current_day, now, food, calories) ==
    [current_day EXCEPT !.diet.entries =
        Append(@, [id |-> now, food |-> food, calories |-> calories])]

\* current_day after the add_food_form handler appended an entry
AppendFood(current_day, now, food, calories) ==
    LET entries == Append(current_day.diet.entries,
                          [id |-> now, food |-> food, calories |-> calories])
    IN  [current_day EXCEPT !.diet = [entries |-> entries,
                                      totalCalories |-> SumCalories(entries)]]

\* the widget events the page of session s offers
Events(s) ==
    LET current_day == CurrentDay(s)
    IN       {[kind |-> "prev"], [kind |-> "next"], [kind |-> "nofap"]}
        \cup {[kind |-> "energy", value |-> v] : v \in EnergyChoices \ {current_day.energy}}
        \cup {[kind |-> "bed", value |-> t] : t \in BedChoices}
        \cup {[kind |-> "wake", value |-> t] : t \in WakeChoices}
        \cup {[kind |-> "add_task", title |-> t, priority |-> p, now |-> n] :
                t \in TitleChoices, p \in PriorityChoices, n \in ClockReadings}
        \cup {[kind |-> "add_task", title |-> "", priority |-> "High", now |-> 1]}
        \cup {[kind |-> k, idx |-> i] :
                k \in {"task_check", "task_time", "task_del"},
                i \in 1 .. Len(current_day.workTasks)}
        \cup {[kind |-> "add_face", name |-> m, now |-> n] :
                m \in NameChoices, n \in ClockReadings}
        \cup {[kind |-> "add_face", name |-> "", now |-> 1]}
        \cup {[kind |-> "face_check", idx |-> i] :
                i \in 1 .. Len(current_day.faceHealth.items)}
        \cup {[kind |-> "add_food", food |-> f, calories |-> c, now |-> n] :
                f \in FoodChoices, c \in CalorieChoices, n \in ClockReadings}
        \cup {[kind |-> "add_food", food |-> "", calories |-> 0, now |-> 1]}
        \cup {[kind |-> "duration", value |-> v] :
                v \in DurationChoices \ {current_day.fitness.duration}}
        \cup {[kind |-> "burnt", value |-> v] :
                v \in BurntChoices \ {current_day.fitness.caloriesBurnt}}
        \cup {[kind |-> "timeframe", value |-> 37 - timeframe[s]]}

\* the event kinds the handlers of a position react to; at "nofap", "sleep"
\* and "analytics" the script reads the date or may save whatever the event
Serves(pos) ==
    IF pos = "energy" THEN {"energy"}
    ELSE IF pos = "add_task" THEN {"add_task"}
    ELSE IF pos = "tasks" THEN {"task_check", "task_time", "task_del"}
    ELSE IF pos = "add_face" THEN {"add_face"}
    ELSE IF pos = "face" THEN {"face_check"}
    ELSE IF pos = "add_food" THEN {"add_food"}
    ELSE {"duration", "burnt"}

\* the next step of session s touches st.session_state of s only: it reads
\* neither DATA_FILE nor date.today() and writes no file
LocalStep(s) ==
    \/ pc[s] \in {"nav", "get_day"}
    \/ /\ pc[s] \in {"energy", "add_task", "tasks", "add_face", "face", "add_food", "fitness"}
       /\ event[s].kind \notin Serves(pc[s])

\* The scripts of two sessions run in two threads. A local step of one
\* commutes with every step of the other and with the end of the day, so
\* of the orders in which they can happen one is kept: the local step first,
\* that of the lower session when both have one
Turn(s) ==
    \A t \in Sessions \ {s} : LocalStep(t) => (LocalStep(s) /\ s < t)

\* the run goes on to position next and no call was made
Pass(s, next) ==
    /\ pc' = [pc EXCEPT ![s] = next]
    /\ last' = NoCall
    /\ UNCHANGED <<data, disk, event, saves, budget>>

\* a call of update_and_save by session s has raised
Failed(s) == saves[s] # NoCall /\ saves[s].failed

\* update_and_save(updates) on the store d1, then position next ("nav" after
\* st.rerun()); save_data may raise, which ends the run
SaveAndGo(s, d1, updates, next) ==
    \E outcome \in SaveOutcomes :
        /\ outcome # "ok" => budget.left > 0
        /\ LET r == update_and_save(d1, current_date[s], updates, disk, outcome)
           IN  /\ data' = [data EXCEPT ![s] = r.data]
               /\ disk' = r.disk
               /\ last' = [op |-> "update_and_save", s |-> s, raised |-> r.raised]
               /\ saves' = [saves EXCEPT ![s] = [key |-> CurKey(s), updates |-> updates,
                                                 failed |-> r.raised \/ Failed(s)]]
               /\ budget' = IF r.raised THEN [budget EXCEPT !.left = @ - 1] ELSE budget
               /\ pc' = [pc EXCEPT ![s] = IF r.raised THEN "idle" ELSE next]
               /\ event' = [event EXCEPT ![s] =
                              IF r.raised \/ next = "nav" THEN NoEvent ELSE @]

\* a handler changed current_day in place and calls update_and_save(current_day)
MutateAndSave(s, current_day, next) ==
    SaveAndGo(s, SetItem(data[s], CurKey(s), current_day), current_day, next)

\* a browser opens the page: the session state is initialised and the script runs
OpenSession(s) ==
    /\ pc[s] = "closed"
    /\ s \in budget.sessions
    /\ \A t \in Sessions : t < s => t \in started    \* the sessions are numbered as they open
    /\ started' = started \cup {s}
    /\ data' = [data EXCEPT ![s] = load_data(disk)]
    /\ current_date' = [current_date EXCEPT ![s] = today]
    /\ pc' = [pc EXCEPT ![s] = "nav"]
    /\ last' = NoCall
    /\ UNCHANGED <<today, disk, event, shown, timeframe, saves, budget, arg, ret>>

\* the browser leaves: the session state is gone
CloseSession(s) ==
    /\ pc[s] = "idle"
    /\ budget.left > 0
    /\ budget' = [budget EXCEPT !.left = @ - 1]
    /\ started' = started \ {s}
    /\ data' = [data EXCEPT ![s] = EmptyDict]
    /\ current_date' = [current_date EXCEPT ![s] = today]
    /\ pc' = [pc EXCEPT ![s] = "closed"]
    /\ shown' = [shown EXCEPT ![s] = 0]
    /\ timeframe' = [timeframe EXCEPT ![s] = 7]
    /\ saves' = [saves EXCEPT ![s] = NoCall]
    /\ last' = NoCall
    /\ UNCHANGED <<today, disk, event, arg, ret>>

\* the user changes a widget or presses a button: the script runs again
UserEvent(s) ==
    /\ pc[s] = "idle"
    /\ budget.left > 0
    /\ budget' = [budget EXCEPT !.left = @ - 1]
    /\ \E e \in Events(s) : event' = [event EXCEPT ![s] = e]
    /\ pc' = [pc EXCEPT ![s] = "nav"]
    /\ last' = NoCall
    /\ UNCHANGED <<today, disk, started, data, current_date, shown, timeframe, saves,
                   arg, ret>>

\* the day ends
Midnight ==
    /\ budget.left > 0
    /\ \A t \in Sessions : ~LocalStep(t)
    /\ budget' = [budget EXCEPT !.left = @ - 1]
    /\ today' = today + 1
    /\ last' = NoCall
    /\ UNCHANGED <<disk, started, data, current_date, pc, event, shown, timeframe, saves,
                   arg, ret>>

\* the Previous Day and Next Day buttons
Nav(s) ==
    /\ pc[s] = "nav"
    /\ IF event[s].kind \in {"prev", "next"}
       THEN /\ current_date' = [current_date EXCEPT ![s] =
                                  IF event[s].kind = "prev" THEN @ - 1 ELSE @ + 1]
            /\ pc' = [pc EXCEPT ![s] = "nav"]
            /\ event' = [event EXCEPT ![s] = NoEvent]
       ELSE /\ pc' = [pc EXCEPT ![s] = "get_day"]
            /\ UNCHANGED <<current_date, event>>
    /\ last' = NoCall
    /\ UNCHANGED <<today, disk, started, data, shown, timeframe, saves, budget, arg, ret>>

\* current_day = get_day_data(st.session_state.data, ...)
GetDay(s) ==
    /\ pc[s] = "get_day"
    /\ data' = [data EXCEPT ![s] = get_day_data(@, CurKey(s)).data]
    /\ pc' = [pc EXCEPT ![s] = "nofap"]
    /\ last' = NoCall
    /\ UNCHANGED <<today, disk, started, current_date, event, shown, timeframe,
                   saves, budget, arg, ret>>

\* the streak metric and the check-in button
Nofap(s) ==
    /\ pc[s] = "nofap"
    /\ LET r == calculate_nofap_streak(data[s], today)
       IN  /\ shown' = [shown EXCEPT ![s] = r.ret]
           /\ IF event[s].kind = "nofap"
              THEN SaveAndGo(s, r.data, NofapUpdates(r.data[CurKey(s)]), "nav")
              ELSE /\ data' = [data EXCEPT ![s] = r.data]
                   /\ pc' = [pc EXCEPT ![s] = "energy"]
                   /\ last' = NoCall
                   /\ UNCHANGED <<disk, event, saves, budget>>
    /\ UNCHANGED <<today, started, current_date, timeframe, arg, ret>>

\* the energy slider
Energy(s) ==
    /\ pc[s] = "energy"
    /\ LET energy == IF event[s].kind = "energy" THEN event[s].value
                     ELSE CurrentDay(s).energy
       IN  IF energy # CurrentDay(s).energy
           THEN SaveAndGo(s, data[s], [energy |-> energy], "sleep")
           ELSE Pass(s, "sleep")
    /\ UNCHANGED <<today, started, current_date, shown, timeframe, arg, ret>>

\* Sleep saving only when the user set one of the two time inputs
SleepOnEdit(s) ==
    /\ pc[s] = "sleep"
    /\ LET sleep     == CurrentDay(s).sleep
           bed_time  == IF event[s].kind = "bed" THEN event[s].value
                        ELSE StrpTime(<<22, 0>>)
           wake_time == IF event[s].kind = "wake" THEN event[s].value
                        ELSE StrpTime(<<6, 0>>)
       IN  IF event[s].kind \in {"bed", "wake"}
           THEN SaveAndGo(s, data[s], SleepUpdates(bed_time, wake_time), "add_task")
           ELSE Pass(s, "add_task")
    /\ UNCHANGED <<today, started, current_date, shown, timeframe, arg, ret>>

\* the two time inputs
Sleep(s) ==
    /\ pc[s] = "sleep"
    /\ LET sleep        == CurrentDay(s).sleep
           default_bed  == IF sleep.bedTime # <<>> THEN StrpTime(sleep.bedTime)
                           ELSE StrpTime(<<22, 0>>)
           default_wake == IF sleep.wakeTime # <<>> THEN StrpTime(sleep.wakeTime)
                           ELSE StrpTime(<<6, 0>>)
           bed_time     == IF event[s].kind = "bed" THEN event[s].value ELSE default_bed
           wake_time    == IF event[s].kind = "wake" THEN event[s].value ELSE default_wake
       IN  IF StrfTime(bed_time) # sleep.bedTime \/ StrfTime(wake_time) # sleep.wakeTime
           THEN SaveAndGo(s, data[s], SleepUpdates(bed_time, wake_time), "add_task")
           ELSE Pass(s, "add_task")
    /\ UNCHANGED <<today, started, current_date, shown, timeframe, arg, ret>>

\* add_task_form
AddTask(s) ==
    /\ pc[s] = "add_task"
    /\ IF event[s].kind = "add_task" /\ event[s].title # ""
       THEN MutateAndSave(s, AppendTask(CurrentDay(s), event[s].now, event[s].title,
                                        event[s].priority), "nav")
       ELSE Pass(s, "tasks")
    /\ UNCHANGED <<today, started, current_date, shown, timeframe, arg, ret>>

\* the task list: the checkbox, "+ 15" and delete of each task
Tasks(s) ==
    /\ pc[s] = "tasks"
    /\ IF event[s].kind = "task_check"
       THEN MutateAndSave(s, CheckTask(CurrentDay(s), event[s].idx), "add_face")
       ELSE IF event[s].kind = "task_time"
       THEN MutateAndSave(s, AddTime(CurrentDay(s), event[s].idx), "nav")
       ELSE IF event[s].kind = "task_del"
       THEN MutateAndSave(s, DeleteTask(CurrentDay(s), event[s].idx), "nav")
       ELSE Pass(s, "add_face")
    /\ UNCHANGED <<today, started, current_date, shown, timeframe, arg, ret>>

\* add_face_form
AddFace(s) ==
    /\ pc[s] = "add_face"
    /\ IF event[s].kind = "add_face" /\ event[s].name # ""
       THEN MutateAndSave(s, AppendFaceItem(CurrentDay(s), event[s].now, event[s].name),
                          "nav")
       ELSE Pass(s, "face")
    /\ UNCHANGED <<today, started, current_date, shown, timeframe, arg, ret>>

\* the checkboxes of the face items
Face(s) ==
    /\ pc[s] = "face"
    /\ IF event[s].kind = "face_check"
       THEN MutateAndSave(s, CheckFaceItem(CurrentDay(s), event[s].idx), "add_food")
       ELSE Pass(s, "add_food")
    /\ UNCHANGED <<today, started, current_date, shown, timeframe, arg, ret>>

\* add_food_form
AddFood(s) ==
    /\ pc[s] = "add_food"
    /\ IF event[s].kind = "add_food" /\ event[s].food # ""
       THEN MutateAndSave(s, AppendFood(CurrentDay(s), event[s].now, event[s].food,
                                        event[s].calories), "nav")
       ELSE Pass(s, "fitness")
    /\ UNCHANGED <<today, started, current_date, shown, timeframe, arg, ret>>

\* the two number inputs of the fitness column
Fitness(s) ==
    /\ pc[s] = "fitness"
    /\ LET fitness  == CurrentDay(s).fitness
           duration == IF event[s].kind = "duration" THEN event[s].value
                       ELSE fitness.duration
           burnt    == IF event[s].kind = "burnt" THEN event[s].value
                       ELSE fitness.caloriesBurnt
       IN  IF duration # fitness.duration \/ burnt # fitness.caloriesBurnt
           THEN SaveAndGo(s, data[s], FitnessUpdates(duration, burnt), "analytics")
           ELSE Pass(s, "analytics")
    /\ UNCHANGED <<today, started, current_date, shown, timeframe, arg, ret>>

\* the analytics tab: the timeframe radio and get_analytics_data; the run ends
Analytics(s) ==
    /\ pc[s] = "analytics"
    /\ LET days == IF event[s].kind = "timeframe" THEN event[s].value ELSE timeframe[s]
       IN  /\ timeframe' = [timeframe EXCEPT ![s] = days]
           /\ data' = [data EXCEPT ![s] = get_analytics_data(@, today, days).data]
    /\ pc' = [pc EXCEPT ![s] = "idle"]
    /\ event' = [event EXCEPT ![s] = NoEvent]
    /\ last' = NoCall
    /\ UNCHANGED <<today, disk, started, current_date, shown, saves, budget, arg, ret>>

Run(s) ==
    \/ Nav(s)
    \/ GetDay(s)
    \/ Nofap(s)
    \/ Energy(s)
    \/ Sleep(s)
    \/ AddTask(s)
    \/ Tasks(s)
    \/ AddFace(s)
    \/ Face(s)
    \/ AddFood(s)
    \/ Fitness(s)
    \/ Analytics(s)

Next ==
    \/ \E s \in Sessions :
            Turn(s) /\ (OpenSession(s) \/ CloseSession(s) \/ UserEvent(s) \/ Run(s))
    \/ Midnight

InitScript(sessions, events) ==
    /\ today = Today0
    /\ disk = Missing
    /\ started = {}
    /\ data = [s \in Sessions |-> EmptyDict]
    /\ current_date = [s \in Sessions |-> today]
    /\ pc = [s \in Sessions |-> "closed"]
    /\ event = [s \in Sessions |-> NoEvent]
    /\ shown = [s \in Sessions |-> 0]
    /\ timeframe = [s \in Sessions |-> 7]
    /\ last = NoCall
    /\ saves = [s \in Sessions |-> NoCall]
    /\ budget = [left |-> events, sessions |-> sessions]
    /\ arg = [fn |-> "script"]
    /\ ret = 0

\* one browser session, from a missing data file
Init == InitScript({1}, MaxEvents)
Spec == Init /\ [][Next]_vars

\* two browser sessions on the same data file
InitRace == InitScript(Sessions, MaxRaceEvents)
SpecRace == InitRace /\ [][Next]_vars

(***************************************************************************)
(* Direct calls: every function applied to inputs drawn from bounded sets  *)
(***************************************************************************)
Todays == Today0 .. (Today0 + 1)

\* a record with every section filled in, checked in
BusyDay ==
    [workTasks   |-> << [id |-> 1001, title |-> "write", priority |-> "High",
                         timeSpent |-> 30, completed |-> TRUE],
                        [id |-> 1002, title |-> "read", priority |-> "Low",
                         timeSpent |-> 15, completed |-> FALSE] >>,
     fitness     |-> [duration |-> 15, caloriesBurnt |-> 300],
     faceHealth  |-> [items |-> << [id |-> 1003, name |-> "sunscreen", completed |-> TRUE],
                                   [id |-> 1004, name |-> "cleanser", completed |-> FALSE] >>],
     diet        |-> [entries |-> << [id |-> 1005, food |-> "A", calories |-> 200],
                                     [id |-> 1006, food |-> "B", calories |-> 150] >>,
                      totalCalories |-> 350],
     energy      |-> 4,
     sleep       |-> [bedTime |-> <<23, 30>>, wakeTime |-> <<6, 0>>, hours |-> 65],
     nofapStreak |-> 1]

\* a record written before sleep, diet, fitness, faceHealth and nofapStreak existed
LegacyDay == [workTasks |-> <<>>, energy |-> 4]

FlaggedDay == [DefaultDay EXCEPT !.nofapStreak = 1]

DayKinds == {"absent", "default", "busy", "legacy"}
Patterns == [0 .. (PatLen - 1) -> DayKinds]

KindRecord(kind) ==
    IF kind = "default" THEN DefaultDay
    ELSE IF kind = "busy" THEN BusyDay
    ELSE LegacyDay

\* the store of the n flagged days first, first - 1, ...
FlaggedRun(first, n) ==
    [k \in {get_date_key(first - j) : j \in 0 .. (n - 1)} |-> FlaggedDay]

\* d with the days current - i, i < PatLen, as pat says, from day i on
RECURSIVE PatternDays(_, _, _, _)
PatternDays(d, current, pat, i) ==
    IF i >= PatLen THEN d
    ELSE PatternDays(IF pat[i] = "absent" THEN d
                     ELSE SetItem(d, get_date_key(current - i), KindRecord(pat[i])),
                     current, pat, i + 1)

\* the store whose last PatLen days are as pat says, preceded by run flagged days
PatternStore(current, pat, run) ==
    PatternDays(FlaggedRun(current - PatLen, run), current, pat, 0)

\* flagged runs that end short of, at and beyond the lookback
LongRuns == {0, Lookback - PatLen - 1, Lookback - PatLen, Lookback - PatLen + 1}

\* "HH:MM" strings, valid and not
ValidTimes == {<<22, 0>>, <<6, 0>>, <<23, 30>>, <<0, 0>>, <<23, 59>>, <<6, 3>>, <<22, 9>>}
ShortTimes == {<<7, 5, "H:M">>, <<22, 0, "H:M">>}
BadTimes   == {<<>>, <<24, 0>>, <<12, 60>>, <<7>>}

\* the updates handed to update_and_save
UpdateArgs ==
    {[nofapStreak |-> 1],
     [energy |-> 5],
     [energy |-> 2, nofapStreak |-> 0],
     [sleep |-> [bedTime |-> <<22, 0>>, wakeTime |-> <<6, 0>>, hours |-> 80]],
     [sleep |-> [bedTime |-> <<22, 0>>, wakeTime |-> <<6, 0>>]],
     [fitness |-> [duration |-> 5, caloriesBurnt |-> 50]],
     BusyDay,
     EmptyDict}

\* what DATA_FILE may hold when a session starts
Files(t) ==
    {Missing, Corrupt, Unreadable, JsonArray} \cup {JsonDump(PatternStore(t, pat, 0)) : pat \in Patterns}

CallArgs(t) ==
         {[fn |-> "calculate_nofap_streak", data |-> PatternStore(t, pat, run)] :
            pat \in Patterns, run \in LongRuns}
    \cup {[fn |-> "get_analytics_data", data |-> PatternStore(t, pat, 0), days |-> n] :
            pat \in Patterns, n \in (0 .. MaxDays) \cup {7}}
    \cup {[fn |-> "get_day_data", data |-> PatternStore(t, pat, 0),
           date_key |-> get_date_key(t - i)] :
            pat \in Patterns, i \in -1 .. PatLen}
    \cup {[fn |-> "update_and_save", data |-> PatternStore(t, pat, 0),
           current_date |-> t - i, updates |-> u] :
            pat \in Patterns, i \in -1 .. PatLen, u \in UpdateArgs}
    \cup {[fn |-> "load_data", data |-> EmptyDict, file |-> f] : f \in Files(t)}
    \cup {[fn |-> "check_in", data |-> PatternStore(t, pat, run)] :
            pat \in {q \in Patterns : q[0] # "legacy"}, run \in LongRuns}
    \cup {[fn |-> "calculate_sleep_hours", data |-> EmptyDict,
           bed_time |-> b, wake_time |-> w] :
            b \in ValidTimes \cup ShortTimes \cup BadTimes,
            w \in ValidTimes \cup ShortTimes \cup BadTimes}

InitCalls ==
    /\ today \in Todays
    /\ arg \in CallArgs(today)
    /\ disk = IF arg.fn = "load_data" THEN arg.file ELSE JsonDump(arg.data)
    /\ started = {1}
    /\ data = [s \in Sessions |-> IF s = 1 THEN arg.data ELSE EmptyDict]
    /\ current_date = [s \in Sessions |->
                         IF s = 1 /\ arg.fn = "update_and_save"
                         THEN arg.current_date ELSE today]
    /\ pc = [s \in Sessions |-> "call"]
    /\ event = [s \in Sessions |-> NoEvent]
    /\ shown = [s \in Sessions |-> 0]
    /\ timeframe = [s \in Sessions |-> 7]
    /\ last = NoCall
    /\ saves = [s \in Sessions |-> NoCall]
    /\ budget = [left |-> 0, sessions |-> {1}]
    /\ ret = 0

Called(fn) == /\ arg.fn = fn
              /\ pc[1] = "call"
              /\ pc' = [pc EXCEPT ![1] = "returned"]
              /\ UNCHANGED <<today, started, current_date, event, shown, timeframe, saves,
                             budget, arg>>

CallStreak ==
    /\ Called("calculate_nofap_streak")
    /\ LET r == calculate_nofap_streak(data[1], today)
       IN  /\ data' = [data EXCEPT ![1] = r.data]
           /\ ret' = r.ret
    /\ last' = [op |-> "calculate_nofap_streak"]
    /\ UNCHANGED disk

CallAnalytics ==
    /\ Called("get_analytics_data")
    /\ LET r == get_analytics_data(data[1], today, arg.days)
       IN  /\ data' = [data EXCEPT ![1] = r.data]
           /\ ret' = r.ret
    /\ last' = [op |-> "get_analytics_data"]
    /\ UNCHANGED disk

\* a second call of get_analytics_data, with the same days on the same day
CallAnalyticsAgain ==
    /\ arg.fn = "get_analytics_data"
    /\ pc[1] = "returned"
    /\ pc' = [pc EXCEPT ![1] = "returned_again"]
    /\ LET r == get_analytics_data(data[1], today, arg.days)
       IN  /\ data' = [data EXCEPT ![1] = r.data]
           /\ ret' = r.ret
    /\ last' = [op |-> "get_analytics_data_again", ret |-> ret, data |-> data[1]]
    /\ UNCHANGED <<today, disk, started, current_date, event, shown, timeframe, saves,
                   budget, arg>>

CallGetDay ==
    /\ Called("get_day_data")
    /\ LET r == get_day_data(data[1], arg.date_key)
       IN  /\ data' = [data EXCEPT ![1] = r.data]
           /\ ret' = r.ret
    /\ last' = [op |-> "get_day_data"]
    /\ UNCHANGED disk

CallUpdateAndSave ==
    /\ Called("update_and_save")
    /\ \E outcome \in SaveOutcomes :
         LET r == update_and_save(data[1], current_date[1], arg.updates, disk, outcome)
         IN  /\ data' = [data EXCEPT ![1] = r.data]
             /\ disk' = r.disk
             /\ ret' = r.raised
             /\ last' = [op |-> "update_and_save", raised |-> r.raised]

\* a run that views today and shows the streak, the check-in button pressed
\* in it (a record of today without nofapStreak stops the run at line 189),
\* and the streak the run after st.rerun() shows
CallCheckIn ==
    /\ Called("check_in")
    /\ LET g      == get_day_data(data[1], get_date_key(current_date[1]))
           before == calculate_nofap_streak(g.data, today)
           r      == update_and_save(before.data, current_date[1], NofapUpdates(g.ret),
                                     disk, "ok")
           after  == calculate_nofap_streak(r.data, today)
       IN  /\ data' = [data EXCEPT ![1] = after.data]
           /\ disk' = r.disk
           /\ ret' = [before |-> before.ret, after |-> after.ret]
    /\ last' = [op |-> "check_in"]

\* st.session_state.data = load_data()
CallLoadData ==
    /\ Called("load_data")
    /\ data' = [data EXCEPT ![1] = load_data(disk)]
    /\ ret' = load_data(disk)
    /\ last' = [op |-> "load_data"]
    /\ UNCHANGED disk

CallSleepHours ==
    /\ Called("calculate_sleep_hours")
    /\ ret' = calculate_sleep_hours(arg.bed_time, arg.wake_time)
    /\ last' = [op |-> "calculate_sleep_hours"]
    /\ UNCHANGED <<data, disk>>

NextCalls ==
    \/ CallStreak
    \/ CallAnalytics
    \/ CallAnalyticsAgain
    \/ CallGetDay
    \/ CallUpdateAndSave
    \/ CallCheckIn
    \/ CallLoadData
    \/ CallSleepHours

SpecCalls == InitCalls /\ [][NextCalls]_vars

(***************************************************************************)
(* Properties of the direct calls                                          *)
(***************************************************************************)
DayFields == {"workTasks", "fitness", "faceHealth", "diet", "energy", "sleep", "nofapStreak"}

Did(fn) == last.op = fn

\* the day is in the store with nofapStreak == 1
Flagged(d, day) ==
    /\ get_date_key(day) \in DOMAIN d
    /\ "nofapStreak" \in DOMAIN d[get_date_key(day)]
    /\ d[get_date_key(day)].nofapStreak = 1

\* the length of the run of flagged days that ends at day t - first, counting
\* no day before t - (Lookback - 1)
RunLength(d, t, first) ==
    LET F == {j \in first .. (Lookback - 1) : Flagged(d, t - j)}
    IN  CHOOSE n \in 0 .. (Lookback - first) :
            /\ \A j \in first .. (first + n - 1) : j \in F
            /\ (first + n) \notin F

\* C1: calculate_nofap_streak returns the length of the run of flagged days
\* that ends at today when today is flagged, and of the run that ends at
\* yesterday when it is not, counted within the days today-0 .. today-364
C1_StreakIsRun ==
    Did("calculate_nofap_streak") =>
        ret = IF Flagged(arg.data, today) THEN RunLength(arg.data, today, 0)
              ELSE RunLength(arg.data, today, 1)

\* today is not flagged and the run that ends at yesterday is cut by the lookback
C1_Witness ==
    /\ Did("calculate_nofap_streak")
    /\ ~Flagged(arg.data, today)
    /\ Flagged(arg.data, today - Lookback)
    /\ ret = Lookback - 1

\* C2: calculate_nofap_streak leaves the store as it found it: the same date
\* keys, the same records
C2_StreakReadOnly ==
    Did("calculate_nofap_streak") => data[1] = arg.data

\* the scan examined today and the day that ended the run, both absent
C2_Witness ==
    /\ Did("calculate_nofap_streak")
    /\ ret = PatLen - 1
    /\ get_date_key(today) \notin DOMAIN data[1]
    /\ get_date_key(today - PatLen) \notin DOMAIN data[1]
    /\ data[1] = arg.data

\* the record update_and_save merges into: the stored one, or the default
Previous(d, key) == IF key \in DOMAIN d THEN d[key] ELSE DefaultDay

\* C3: update_and_save(updates) is a shallow merge into the record of the
\* viewed date: each field of updates holds the supplied value whole, each
\* other field keeps its value, and no other date changes
C3_ShallowMerge ==
    Did("update_and_save") =>
        LET key  == get_date_key(current_date[1])
            prev == Previous(arg.data, key)
        IN  /\ key \in DOMAIN data[1]
            /\ DOMAIN data[1][key] = (DOMAIN prev) \cup (DOMAIN arg.updates)
            /\ \A f \in DOMAIN arg.updates : data[1][key][f] = arg.updates[f]
            /\ \A f \in (DOMAIN prev) \ (DOMAIN arg.updates) : data[1][key][f] = prev[f]
            /\ DOMAIN data[1] = (DOMAIN arg.data) \cup {key}
            /\ \A k \in (DOMAIN arg.data) \ {key} : data[1][k] = arg.data[k]

\* a sleep object without hours replaced one that had hours
C3_Witness ==
    /\ Did("update_and_save")
    /\ LET key == get_date_key(current_date[1])
       IN  /\ key \in DOMAIN arg.data
           /\ "sleep" \in DOMAIN arg.data[key]
           /\ arg.data[key].sleep.hours = 65
           /\ DOMAIN data[1][key].sleep = {"bedTime", "wakeTime"}
           /\ data[1][key].energy = 4
           /\ Cardinality(DOMAIN data[1]) > 1

\* C7: get_analytics_data(data, days) returns days entries dated
\* today-(days-1), ..., today in that order
C7_WindowDates ==
    Did("get_analytics_data") =>
        /\ Len(ret) = arg.days
        /\ \A n \in 1 .. Len(ret) : ret[n].date = today - (arg.days - n)

\* a window of seven days that starts in the month before today's
C7_Witness ==
    /\ Did("get_analytics_data")
    /\ arg.days = 7
    /\ Len(ret) = 7
    /\ ret[7].date = today
    /\ ret[1].date_str[2] > ret[7].date_str[2]

\* C8: get_day_data returns the stored record and leaves the store alone
\* when the key is there, and otherwise inserts and returns the default
\* record and changes no other key
C8_GetOrCreate ==
    Did("get_day_data") =>
        IF arg.date_key \in DOMAIN arg.data
        THEN /\ ret = arg.data[arg.date_key]
             /\ data[1] = arg.data
        ELSE /\ ret = [workTasks   |-> <<>>,
                       fitness     |-> [duration |-> 0, caloriesBurnt |-> 0],
                       faceHealth  |-> [items |-> <<>>],
                       diet        |-> [entries |-> <<>>, totalCalories |-> 0],
                       energy      |-> 3,
                       sleep       |-> [bedTime |-> <<>>, wakeTime |-> <<>>, hours |-> 0],
                       nofapStreak |-> 0]
             /\ DOMAIN data[1] = (DOMAIN arg.data) \cup {arg.date_key}
             /\ data[1][arg.date_key] = ret
             /\ \A k \in DOMAIN arg.data : data[1][k] = arg.data[k]

\* a default record was inserted beside records that were there
C8_Witness ==
    /\ Did("get_day_data")
    /\ arg.date_key \notin DOMAIN arg.data
    /\ arg.date_key \in DOMAIN data[1]
    /\ Cardinality(DOMAIN arg.data) = PatLen

\* C9: get_day_data returns a record with every DayRecord field, a field
\* the stored record lacks being set to its default
C9_BackfillsLegacy ==
    Did("get_day_data") =>
        /\ DayFields \subseteq DOMAIN ret
        /\ \A f \in DayFields :
             ret[f] = Get(Previous(arg.data, arg.date_key), f, DefaultDay[f])

\* C11: update_and_save ends in one of two ways, and in both the record of
\* the viewed date carries the supplied values: it returns and the file holds
\* the whole store, or save_data raised, the call raised with it, and the
\* file is as it was or was left truncated by the one attempt to write it
C11_SavedOrRaised ==
    Did("update_and_save") =>
        LET key == get_date_key(current_date[1])
        IN  /\ key \in DOMAIN data[1]
            /\ \A f \in DOMAIN arg.updates : data[1][key][f] = arg.updates[f]
            /\ IF ret
               THEN disk \in {[kind |-> "json", doc |-> arg.data], [kind |-> "corrupt"]}
               ELSE disk = [kind |-> "json", doc |-> data[1]]

\* the call raised: energy 5 is in memory over the stored 4, the file still
\* holds the 4
C11_Witness ==
    /\ Did("update_and_save")
    /\ ret
    /\ LET key == get_date_key(current_date[1])
       IN  /\ key \in DOMAIN arg.data
           /\ arg.data[key].energy = 4
           /\ data[1][key].energy = 5
           /\ disk.kind = "json"
           /\ disk.doc[key].energy = 4

\* C13: after get_analytics_data(data, days) the store holds every date of
\* today-(days-1) .. today; the records it held are as they were, the
\* records added are default records, and no other date was added
C13_AnalyticsFrame ==
    Did("get_analytics_data") =>
        LET window == {get_date_key(today - i) : i \in 0 .. (arg.days - 1)}
        IN  /\ DOMAIN data[1] = (DOMAIN arg.data) \cup window
            /\ \A k \in DOMAIN arg.data : data[1][k] = arg.data[k]
            /\ \A k \in window \ (DOMAIN arg.data) : data[1][k] = DefaultDay

\* a window of two days: today was added, yesterday's filled record is in
\* the window and the record of the day before is outside it
C13_Witness ==
    /\ Did("get_analytics_data")
    /\ arg.days = 2
    /\ get_date_key(today) \notin DOMAIN arg.data
    /\ get_date_key(today) \in DOMAIN data[1]
    /\ get_date_key(today - 1) \in DOMAIN arg.data
    /\ data[1][get_date_key(today - 1)].energy = 4
    /\ get_date_key(today - 2) \in DOMAIN data[1]
    /\ Cardinality(DOMAIN data[1]) = 3

\* C16: a second call of get_analytics_data with the same days on the same
\* day returns what the first returned and leaves the store as the first
\* left it
C16_AnalyticsIdempotent ==
    Did("get_analytics_data_again") =>
        /\ ret = last.ret
        /\ data[1] = last.data

\* the first call of a window of seven days materialized default records
\* beside a filled one, and the second call returned the same seven stats
C16_Witness ==
    /\ Did("get_analytics_data_again")
    /\ arg.days = 7
    /\ Len(ret) = 7
    /\ Cardinality(DOMAIN arg.data) = 1
    /\ Cardinality(DOMAIN data[1]) = 7
    /\ \E n \in 1 .. 7 : ret[n].work_mins = 45
    /\ ret = last.ret

\* v is a dict: none of its keys is the index of a list
IsMapping(v) == \A k \in DOMAIN v : Len(k) # 1

\* C17: load_data returns a mapping, the empty one unless the file exists
\* and holds JSON, and the session starts with what it returned
C17_LoadsAMapping ==
    Did("load_data") =>
        /\ IsMapping(ret)
        /\ disk.kind # "json" => ret = EmptyDict
        /\ data[1] = ret

\* the minutes of the tasks, added up
RECURSIVE TotalMinutes(_, _)
TotalMinutes(tasks, n) ==
    IF n = 0 THEN 0 ELSE tasks[n].timeSpent + TotalMinutes(tasks, n - 1)

\* C19: each entry get_analytics_data returns is the projection of the
\* record its date had when the call was made, the default record for a date
\* that had none: the sum of timeSpent, diet.totalCalories,
\* fitness.caloriesBurnt, sleep.hours, energy, the number of face items, the
\* number of completed face items, and nofapStreak
C19_StatIsProjection ==
    Did("get_analytics_data") =>
        \A n \in 1 .. Len(ret) :
            LET key == get_date_key(ret[n].date)
                rec == IF key \in DOMAIN arg.data THEN arg.data[key]
                       ELSE [workTasks   |-> <<>>,
                             fitness     |-> [caloriesBurnt |-> 0],
                             faceHealth  |-> [items |-> <<>>],
                             diet        |-> [totalCalories |-> 0],
                             energy      |-> 3,
                             sleep       |-> [hours |-> 0],
                             nofapStreak |-> 0]
            IN  DayFields \subseteq DOMAIN rec =>
                    /\ ret[n].work_mins = TotalMinutes(rec.workTasks, Len(rec.workTasks))
                    /\ ret[n].cals_in = rec.diet.totalCalories
                    /\ ret[n].cals_out = rec.fitness.caloriesBurnt
                    /\ ret[n].sleep = rec.sleep.hours
                    /\ ret[n].energy = rec.energy
                    /\ ret[n].face_total = Len(rec.faceHealth.items)
                    /\ ret[n].face_done =
                          Cardinality({m \in 1 .. Len(rec.faceHealth.items) :
                                         rec.faceHealth.items[m].completed})
                    /\ ret[n].face_done \in 0 .. ret[n].face_total
                    /\ ret[n].nofap = rec.nofapStreak

\* the entry of today is that of a filled record with one face item of two
\* done, the entry of yesterday that of a date with no record
C19_Witness ==
    /\ Did("get_analytics_data")
    /\ arg.days = 2
    /\ get_date_key(today - 1) \notin DOMAIN arg.data
    /\ ret[1] = [date |-> today - 1, date_str |-> ret[1].date_str, work_mins |-> 0,
                 cals_in |-> 0, cals_out |-> 0, sleep |-> 0, energy |-> 3,
                 face_total |-> 0, face_done |-> 0, nofap |-> 0]
    /\ ret[2] = [date |-> today, date_str |-> ret[2].date_str, work_mins |-> 45,
                 cals_in |-> 350, cals_out |-> 300, sleep |-> 65, energy |-> 4,
                 face_total |-> 2, face_done |-> 1, nofap |-> 1]

\* C20: with today viewed, the check-in button changes the streak shown by
\* one: up by one, onto the run that ends at yesterday, when today was not
\* flagged, and down by one, back to that run, when it was
C20_CheckInChangesByOne ==
    Did("check_in") =>
        IF Flagged(arg.data, today)
        THEN /\ ret.after = ret.before - 1
             /\ ret.after = RunLength(arg.data, today, 1)
        ELSE /\ ret.after = ret.before + 1
             /\ ret.before = RunLength(arg.data, today, 1)

\* today had no flag and the run that ends at yesterday fills the lookback:
\* the streak went from 364 to 365
C20_Witness ==
    /\ Did("check_in")
    /\ ~Flagged(arg.data, today)
    /\ Flagged(data[1], today)
    /\ Flagged(arg.data, today - Lookback)
    /\ ret = [before |-> Lookback - 1, after |-> Lookback]

\* the text is two two-digit fields, an hour and a minute
ValidHHMM(t) == Len(t) = 2 /\ t[1] \in 0..23 /\ t[2] \in 0..59

\* the text is an hour and a minute, of one digit or two each
ReadsAsTime(t) == Len(t) \in {2, 3} /\ t[1] \in 0..23 /\ t[2] \in 0..59

\* the minutes from bed to wake, wake being on the next day when it is earlier
Elapsed(bed, wake) ==
    LET b == bed[1] * 60 + bed[2]
        w == wake[1] * 60 + wake[2]
    IN  IF w < b THEN w + 1440 - b ELSE w - b

\* tenths is mins / 60 hours rounded to one decimal: within 0.05 of it
RoundedTo(tenths, mins) == (6 * tenths - mins) \in -3 .. 3

C12_DefaultingPersists ==
    (Did("get_day_data") \/ Did("get_analytics_data")) =>
        /\ disk.kind = "json"
        /\ disk.doc = data[1]

(***************************************************************************)
(* Properties of the script                                                *)
(***************************************************************************)
\* the latest step was a call of update_and_save by session s that returned
Saved(s) == last.op = "update_and_save" /\ last.s = s /\ ~last.raised

\* every record of the stores in memory and of the document on disk
Records ==
         UNION {{data[s][k] : k \in DOMAIN data[s]} : s \in started}
    \cup (IF disk.kind = "json" THEN {disk.doc[k] : k \in DOMAIN disk.doc} ELSE {})

\* C4: when update_and_save returns normally the file holds the whole store
\* of the session: the same date keys, and under each the record in memory
C4_SavesWholeStore ==
    \A s \in Sessions :
        Saved(s) =>
            /\ disk.kind = "json"
            /\ DOMAIN load_data(disk) = DOMAIN data[s]
            /\ \A k \in DOMAIN data[s] : load_data(disk)[k] = data[s][k]

\* a save of a changed record of today wrote the default record of six days
\* ago, which the analytics tab of an earlier run had materialized
C4_Witness ==
    /\ Saved(1)
    /\ saves[1].key = get_date_key(today)
    /\ data[1][get_date_key(today)].nofapStreak = 1
    /\ get_date_key(today - 6) \in DOMAIN data[1]
    /\ disk.kind = "json"
    /\ get_date_key(today - 6) \in DOMAIN disk.doc
    /\ disk.doc[get_date_key(today - 6)] = DefaultDay
    /\ Cardinality(DOMAIN disk.doc) = 7

\* C5: in every record, in memory and on disk, diet.totalCalories is the sum
\* of the calories of diet.entries
C5_TotalIsSum ==
    \A rec \in Records : rec.diet.totalCalories = SumCalories(rec.diet.entries)

\* two entries were added, and the record is on disk with their sum
C5_Witness ==
    /\ disk.kind = "json"
    /\ \E k \in DOMAIN disk.doc :
          /\ Len(disk.doc[k].diet.entries) = 2
          /\ disk.doc[k].diet.entries[1].calories # disk.doc[k].diet.entries[2].calories
          /\ disk.doc[k].diet.totalCalories = 350
          /\ data[1][k] = disk.doc[k]

\* C6: in every record, in memory and on disk, sleep.hours is
\* calculate_sleep_hours of the record's bedTime and wakeTime, and is 0 when
\* either of them is the empty string
C6_HoursOfOwnTimes ==
    \A rec \in Records :
        /\ rec.sleep.hours = calculate_sleep_hours(rec.sleep.bedTime, rec.sleep.wakeTime)
        /\ (rec.sleep.bedTime = <<>> \/ rec.sleep.wakeTime = <<>>) => rec.sleep.hours = 0

\* the user set both times (23:30 to 06:03 is 6.55 hours, stored as 6.5), and
\* a record with no times and no hours is beside it
C6_Witness ==
    /\ disk.kind = "json"
    /\ \E k \in DOMAIN disk.doc :
          /\ disk.doc[k].sleep = [bedTime |-> <<23, 30>>, wakeTime |-> <<6, 3>>, hours |-> 65]
          /\ data[1][k].sleep = disk.doc[k].sleep
    /\ \E k \in DOMAIN disk.doc :
          disk.doc[k].sleep = [bedTime |-> <<>>, wakeTime |-> <<>>, hours |-> 0]

\* C15: while a session lasts, no step takes a date key out of its store
C15_KeysOnlyGrow ==
    [][\A s \in Sessions :
          (s \in started /\ s \in started') => DOMAIN data[s] \subseteq DOMAIN data'[s]]_vars

\* the store went from no date to the seven of the analytics window, and then
\* to eight when the user viewed tomorrow, which update_and_save wrote
C15_Witness ==
    /\ 1 \in started
    /\ pc[1] = "idle"
    /\ current_date[1] = today + 1
    /\ saves[1] # NoCall
    /\ saves[1].key = get_date_key(today + 1)
    /\ Cardinality(DOMAIN data[1]) = 8
    /\ \A i \in -1 .. 6 : get_date_key(today - i) \in DOMAIN data[1]

\* no two elements of the list have the same id
DistinctIds(list) ==
    \A m, n \in 1 .. Len(list) : m # n => list[m].id # list[n].id

\* C18: in every record the ids of workTasks are pairwise distinct, and so
\* are those of faceHealth.items and those of diet.entries
C18_IdsDistinct ==
    \A rec \in Records :
        /\ DistinctIds(rec.workTasks)
        /\ DistinctIds(rec.faceHealth.items)
        /\ DistinctIds(rec.diet.entries)

\* the positions of a run after the sleep column, and the end of the run
AfterSleep ==
    {"add_task", "tasks", "add_face", "face", "add_food", "fitness", "analytics", "idle"}

\* C21: drawing the page writes the viewed record. Once a run is past the
\* sleep column the record of the viewed date has both times and their
\* hours; and when the sleep column saved with neither time input set by the
\* user, the record had empty times and what it saved, in memory and in the
\* file, is the widget defaults 22:00 and 06:00 with 8.0 hours
C21_RenderWritesSleep ==
    \A s \in started :
        LET key == get_date_key(current_date[s])
        IN  /\ pc[s] \in AfterSleep =>
                  /\ key \in DOMAIN data[s]
                  /\ data[s][key].sleep.bedTime # <<>>
                  /\ data[s][key].sleep.wakeTime # <<>>
            /\ (Saved(s) /\ pc[s] = "add_task" /\ event[s].kind \notin {"bed", "wake"}) =>
                  /\ saves[s].key = key
                  /\ saves[s].updates =
                        [sleep |-> [bedTime |-> <<22, 0>>, wakeTime |-> <<6, 0>>, hours |-> 80]]
                  /\ data[s][key].sleep = saves[s].updates.sleep
                  /\ disk.kind = "json"
                  /\ disk.doc[key].sleep = saves[s].updates.sleep

\* the user went to tomorrow and touched nothing else: the run that drew
\* tomorrow saved 22:00, 06:00 and 8.0 into its fresh record, while a record
\* that only the analytics tab materialized keeps the empty times
C21_Witness ==
    /\ Saved(1)
    /\ pc[1] = "add_task"
    /\ event[1] = NoEvent
    /\ current_date[1] = today + 1
    /\ disk.kind = "json"
    /\ disk.doc[get_date_key(today + 1)].sleep =
          [bedTime |-> <<22, 0>>, wakeTime |-> <<6, 0>>, hours |-> 80]
    /\ get_date_key(today - 1) \in DOMAIN disk.doc
    /\ disk.doc[get_date_key(today - 1)].sleep =
          [bedTime |-> <<>>, wakeTime |-> <<>>, hours |-> 0]

\* the call c of update_and_save left its updates in the record of the file
InFile(c) ==
    /\ disk.kind = "json"
    /\ c.key \in DOMAIN disk.doc
    /\ \A f \in DOMAIN c.updates :
          f \in DOMAIN disk.doc[c.key] /\ disk.doc[c.key][f] = c.updates[f]

\* C10: of two sessions that write to the same file the later save wins: when
\* a call of update_and_save returns normally the file holds what the store
\* of its session holds for every date, whatever the other session wrote
\* before, and no date of the other session that this store lacks
C10_LaterSaveWins ==
    \A s \in Sessions : \A t \in Sessions \ {s} :
        Saved(s) =>
            /\ disk.kind = "json"
            /\ \A k \in DOMAIN data[t] :
                  IF k \in DOMAIN data[s]
                  THEN k \in DOMAIN disk.doc /\ disk.doc[k] = data[s][k]
                  ELSE k \notin DOMAIN disk.doc
            /\ InFile(saves[s])

\* both sessions are open and each loaded the file once; no call of either
\* has raised; the file is the store of the later writer s, and the change
\* of the earlier writer t, still in the memory of t, is not in it
C10_Witness ==
    \E s \in Sessions : \E t \in Sessions \ {s} :
        /\ {s, t} \subseteq started
        /\ Saved(s)
        /\ saves[t] # NoCall
        /\ ~Failed(s) /\ ~Failed(t)
        /\ disk = JsonDump(data[s])
        /\ ~InFile(saves[t])
        /\ \A f \in DOMAIN saves[t].updates :
              data[t][saves[t].key][f] = saves[t].updates[f]

====
